---- MODULE Spec2Model ----
(***************************************************************************)
(* A model of prole's HMMER alignment reader, src/hmm/hmmalign_file.rs:    *)
(* HmmAlignFile::from_bufreader (one pass over the lines of a reader, then *)
(* the end-of-stream validation) and HmmAlignFile::get_alignment (the      *)
(* masked projection of one aligned string).                               *)
(*                                                                         *)
(* Text is a sequence of one-character strings, so that the regular        *)
(* expressions, the prefix tests and the character loops of the source act *)
(* on characters.  A map (HashMap<String, String>) is a function whose     *)
(* domain is its key set.  Vec indices are 0-based as in the source; the   *)
(* model adds 1 where it indexes a TLA+ sequence.                          *)
(***************************************************************************)
EXTENDS Integers, Sequences, FiniteSets, TLC

VARIABLES
    buf,        \* the reader: the items buf.lines() yields, in order
    lineno,     \* how many items the for loop has taken from the reader
    seq,        \* from_bufreader's local seq
    pp,         \* from_bufreader's local pp
    pp_cons,    \* from_bufreader's local pp_cons
    mask,       \* from_bufreader's local mask
    mask_idx,   \* from_bufreader's local mask_idx
    pc,         \* "scan", "returned" or "panicked"
    ret,        \* what from_bufreader returned
    calls,      \* the get_alignment calls made on the returned structure
    rank,       \* the TaxonomyRank a caller of lower / higher holds
    rank_calls, \* the lower / higher calls made, each with self and its result
    tax_string, \* the argument of Taxonomy::from_string
    tax_ret,    \* what Taxonomy::from_string returned
    tax_gets    \* the Taxonomy::get calls made on the returned Taxonomy

taxvars == <<tax_string, tax_ret, tax_gets>>

vars == <<buf, lineno, seq, pp, pp_cons, mask, mask_idx, pc, ret, calls,
          rank, rank_calls, taxvars>>

\* The longest stream a reader yields, and the most get_alignment calls made.
MaxLines == 4
MaxCalls == 3
MaxShapeLines == 2
MaxSkipLines == 5
MaxRankCalls == 4
MaxIterCalls == 3
MaxFields == 8
MaxGets == 1

(***************************************************************************)
(* Text helpers.                                                           *)
(***************************************************************************)

\* The characters of the alphabet that the regex class \s matches.
IsSpace(c) == c \in {" ", "\t"}

\* str::starts_with
StartsWith(s, p) == Len(s) >= Len(p) /\ SubSeq(s, 1, Len(p)) = p

\* s without its first n characters.
Drop(s, n) == SubSeq(s, n + 1, Len(s))

\* The length of the longest prefix of s matched by [^\s]*.
RECURSIVE NonSpaceRun(_)
NonSpaceRun(s) ==
    IF s = <<>> \/ IsSpace(Head(s)) THEN 0 ELSE 1 + NonSpaceRun(Tail(s))

\* The maximal runs of non-whitespace characters of s, in order: what the
\* groups ([^\s]+) separated by \s+ can match.
RECURSIVE Tokens(_)
Tokens(s) ==
    IF s = <<>> THEN <<>>
    ELSE IF IsSpace(Head(s)) THEN Tokens(Tail(s))
    ELSE LET n == NonSpaceRun(s)
         IN  <<SubSeq(s, 1, n)>> \o Tokens(Drop(s, n))

\* s is matched by ^[^\s]+(\s+[^\s]+)*$ : non-empty, no whitespace at either end.
Trimmed(s) == s # <<>> /\ ~IsSpace(s[1]) /\ ~IsSpace(s[Len(s)])

(***************************************************************************)
(* The four regular expressions.  Each operator gives the capture groups   *)
(* of a match (hits[1], hits[2]) or NoMatch.                               *)
(***************************************************************************)

NoMatch == <<>>

LIT_STOCKHOLM == <<"#", " ", "S", "T", "O", "C", "K", "H", "O", "L", "M">>
LIT_SLASHES   == <<"/", "/">>
LIT_GR        == <<"#", "=", "G", "R", " ">>
LIT_PP_CONS   == <<"#", "=", "G", "C", " ", "P", "P", "_", "c", "o", "n", "s">>
LIT_GC_RF     == <<"#", "=", "G", "C", " ", "R", "F">>
LIT_PP        == <<"P", "P">>

\* ^#=GR ([^\s]+)\s+PP\s+([^\s]+)$
RE_GR(line) ==
    LET rest == Drop(line, Len(LIT_GR))
        toks == Tokens(rest)
    IN  IF /\ StartsWith(line, LIT_GR)
           /\ Trimmed(rest)
           /\ Len(toks) = 3
           /\ toks[2] = LIT_PP
        THEN <<toks[1], toks[3]>>
        ELSE NoMatch

\* ^#=GC PP_cons\s+([^\s]+)$
RE_PP_CONS(line) ==
    LET rest == Drop(line, Len(LIT_PP_CONS))
        toks == Tokens(rest)
    IN  IF /\ StartsWith(line, LIT_PP_CONS)
           /\ rest # <<>>
           /\ IsSpace(rest[1])
           /\ ~IsSpace(rest[Len(rest)])
           /\ Len(toks) = 1
        THEN <<toks[1]>>
        ELSE NoMatch

\* ^#=GC RF\s+([^\s]+)$
RE_GC_RF(line) ==
    LET rest == Drop(line, Len(LIT_GC_RF))
        toks == Tokens(rest)
    IN  IF /\ StartsWith(line, LIT_GC_RF)
           /\ rest # <<>>
           /\ IsSpace(rest[1])
           /\ ~IsSpace(rest[Len(rest)])
           /\ Len(toks) = 1
        THEN <<toks[1]>>
        ELSE NoMatch

\* Faulty variant: the pattern is not anchored, ([^\s]+)\s+([^\s]+).
RE_ALIGN_Unanchored(line) ==
    LET toks == Tokens(line)
    IN  IF Len(toks) >= 2
        THEN <<toks[1], toks[2]>>
        ELSE NoMatch

\* ^([^\s]+)\s+([^\s]+)$
RE_ALIGN(line) ==
    LET toks == Tokens(line)
    IN  IF Trimmed(line) /\ Len(toks) = 2
        THEN <<toks[1], toks[2]>>
        ELSE NoMatch

(***************************************************************************)
(* Errors and results.                                                     *)
(***************************************************************************)

\* ProleError::Exit(format!("<literal>{}", arg)): the message is the literal
\* followed by the characters of arg.
Exit(literal, arg) == [tag |-> "Err", kind |-> "Exit", msg |-> <<literal>> \o arg]

\* ProleError::IoError(e)
IoError == [tag |-> "Err", kind |-> "IoError", msg |-> <<>>]

ErrorParsing(line) == Exit("Error parsing: ", line)
Duplicate(line)    == Exit("Duplicate: ", line)
MissingSeq         == Exit("Missing seq", <<>>)
MissingPp          == Exit("Missing pp", <<>>)
DifferentLengths   == Exit("Seq and pp have different lengths", <<>>)
MissingPpCons      == Exit("Missing PP_cons", <<>>)
MissingMask        == Exit("Missing mask", <<>>)
MissingSequenceFor(gene_id) == Exit("Missing sequence for: ", gene_id)

Ok(v) == [tag |-> "Ok", val |-> v]

\* from_bufreader has not returned yet.
Pending == [tag |-> "Pending"]

\* An index past the end of a Vec: the thread panics.
Panic == [tag |-> "Panic"]

\* HashMap::new() and HashMap::insert on a key that is absent.
EmptyMap == [k \in {} |-> <<>>]
Insert(m, k, v) == [x \in DOMAIN m \cup {k} |-> IF x = k THEN v ELSE m[x]]

(***************************************************************************)
(* The reader.  An item is what buf.lines() yields: Ok(line) or Err(e).    *)
(***************************************************************************)

Line(s) == [ok |-> TRUE, line |-> s]
IoFail  == [ok |-> FALSE, line |-> <<>>]

L_G1_ABC  == Line(<<"G", "1", " ", "A", "B", "C">>)
L_G1_C    == Line(<<"G", "1", " ", " ", "C">>)
L_G2_BCA  == Line(<<"G", "2", "\t", "B", "C", "A">>)
L_GR_G1   == Line(LIT_GR \o <<"G", "1", " ", "P", "P", " ", "*", "9", "*">>)
L_GR_G2   == Line(LIT_GR \o <<"G", "2", " ", " ", "P", "P", " ", "9", "*", "9">>)
L_CONS_A  == Line(LIT_PP_CONS \o <<" ", "*", "9", "*">>)
L_CONS_B  == Line(LIT_PP_CONS \o <<" ", "9", "9", "9">>)
L_RF_X_X  == Line(LIT_GC_RF \o <<" ", "x", ".", "x">>)
L_RF_NONE == Line(LIT_GC_RF \o <<" ", ".", ".", ".">>)
L_END     == Line(LIT_SLASHES)
L_ONE_TOK == Line(<<"G", "3">>)

Pool ==
    { L_G1_ABC, L_G1_C, L_G2_BCA, L_GR_G1, L_GR_G2, L_CONS_A, L_CONS_B,
      L_RF_X_X, L_RF_NONE, L_END, L_ONE_TOK, IoFail }

\* The identifiers get_alignment is asked for.
G1 == <<"G", "1">>
G2 == <<"G", "2">>
G3 == <<"G", "3">>
GeneIds == {G1, G2, G3}

Streams == UNION { [1..n -> Pool] : n \in 0..MaxLines }

Init ==
    /\ buf \in Streams
    /\ lineno = 0
    /\ seq = EmptyMap
    /\ pp = EmptyMap
    /\ pp_cons = <<>>
    /\ mask = <<>>
    /\ mask_idx = <<>>
    /\ pc = "scan"
    /\ ret = Pending
    /\ calls = <<>>
    /\ rank = "Domain"
    /\ rank_calls = <<>>
    /\ tax_string = <<>>
    /\ tax_ret = Pending
    /\ tax_gets = <<>>

\* Lines whose shape decides the branch and the regex outcome: masks with
\* an upper-case X and with several separating blanks, annotation prefixes
\* followed by something else than their row, and lines of the else branch
\* with one token, three tokens, blanks only, a leading or a trailing blank.
L_RF_UPPER      == Line(LIT_GC_RF \o <<" ", "x", "X", ".">>)
L_RF_WIDE       == Line(LIT_GC_RF \o <<" ", " ", " ", ".", ".", "x", ".", "x", "x", ".">>)
L_RF_UNDERSCORE == Line(LIT_GC_RF \o <<"_", "x">>)
L_GR_NO_PP      == Line(LIT_GR \o <<"G", "1">>)
L_CONS_BARE     == Line(LIT_PP_CONS)
L_THREE_TOK     == Line(<<"G", "1", " ", "A", " ", "B">>)
L_BLANK         == Line(<<" ">>)
L_LEADING       == Line(<<" ", "G", "1", " ", "A">>)
L_TRAILING      == Line(<<"G", "1", " ", "A", " ">>)

\* Lines that begin with "//" or "# STOCKHOLM" and go on with two tokens'
\* worth of text, and lines that begin with '#' and with none of the five
\* prefixes: "#=GS G1" of two tokens and "#comment" of one.
L_END_ROW    == Line(LIT_SLASHES \o <<"G", "1", " ", "A", "B", "C">>)
L_HEADER_ROW == Line(LIT_STOCKHOLM \o <<"x", " ", "y">>)
L_HASH_ROW   == Line(<<"#", "=", "G", "S", " ", "G", "1">>)
L_HASH_ONE   == Line(<<"#", "c", "o", "m", "m", "e", "n", "t">>)

ShapePool ==
    { L_RF_UPPER, L_RF_WIDE, L_RF_UNDERSCORE, L_GR_NO_PP, L_CONS_BARE,
      L_THREE_TOK, L_BLANK, L_LEADING, L_TRAILING, L_ONE_TOK,
      L_G1_ABC, L_GR_G1, L_CONS_A, L_END, IoFail,
      L_RF_NONE, L_END_ROW, L_HEADER_ROW, L_HASH_ROW, L_HASH_ONE }

\* What the reader yielded before the lines of ShapePool: nothing, or the
\* three rows that leave only the mask missing.
Heads == { <<>>, <<L_G1_ABC, L_GR_G1, L_CONS_A>> }

ShapeStreams ==
    { h \o t : h \in Heads,
               t \in UNION { [1..n -> ShapePool] : n \in 0..MaxShapeLines } }

InitShapes ==
    /\ buf \in ShapeStreams
    /\ lineno = 0
    /\ seq = EmptyMap
    /\ pp = EmptyMap
    /\ pp_cons = <<>>
    /\ mask = <<>>
    /\ mask_idx = <<>>
    /\ pc = "scan"
    /\ ret = Pending
    /\ calls = <<>>
    /\ rank = "Domain"
    /\ rank_calls = <<>>
    /\ tax_string = <<>>
    /\ tax_ret = Pending
    /\ tax_gets = <<>>

\* The three ignorable lines among the four rows of a complete file: the
\* empty line, the header "# STOCKHOLM 1.0" and the end marker "//".
L_EMPTY  == Line(<<>>)
L_HEADER == Line(LIT_STOCKHOLM \o <<" ", "1", ".", "0">>)

SkipPool ==
    { L_EMPTY, L_HEADER, L_END, L_G1_ABC, L_GR_G1, L_CONS_A, L_RF_X_X, IoFail }

SkipStreams == UNION { [1..n -> SkipPool] : n \in 0..MaxSkipLines }

InitSkip ==
    /\ buf \in SkipStreams
    /\ lineno = 0
    /\ seq = EmptyMap
    /\ pp = EmptyMap
    /\ pp_cons = <<>>
    /\ mask = <<>>
    /\ mask_idx = <<>>
    /\ pc = "scan"
    /\ ret = Pending
    /\ calls = <<>>
    /\ rank = "Domain"
    /\ rank_calls = <<>>
    /\ tax_string = <<>>
    /\ tax_ret = Pending
    /\ tax_gets = <<>>

(***************************************************************************)
(* from_bufreader: the body of the for loop, one operator per branch.  st  *)
(* holds the five locals; the value is the locals after the branch and     *)
(* res, Pending when the loop goes on and the error when the branch        *)
(* returns.                                                                *)
(***************************************************************************)

Locals == [seq |-> seq, pp |-> pp, pp_cons |-> pp_cons, mask |-> mask,
           mask_idx |-> mask_idx]

Continue(st) == [st |-> st, res |-> Pending]
Return(st, e) == [st |-> st, res |-> e]

\* Faulty variant: the header and the end marker are whole lines.
IsIgnorable_ExactMatch(line) ==
    \/ line = <<>>
    \/ line = LIT_STOCKHOLM
    \/ line = LIT_SLASHES

\* line.is_empty() || line.starts_with("# STOCKHOLM") || line.starts_with("//")
IsIgnorable(line) ==
    \/ line = <<>>
    \/ StartsWith(line, LIT_STOCKHOLM)
    \/ StartsWith(line, LIT_SLASHES)

IsGrLine(line)     == ~IsIgnorable(line) /\ StartsWith(line, LIT_GR)
IsPpConsLine(line) == /\ ~IsIgnorable(line) /\ ~StartsWith(line, LIT_GR)
                      /\ StartsWith(line, LIT_PP_CONS)
IsGcRfLine(line)   == /\ ~IsIgnorable(line) /\ ~StartsWith(line, LIT_GR)
                      /\ ~StartsWith(line, LIT_PP_CONS)
                      /\ StartsWith(line, LIT_GC_RF)
IsAlignLine(line)  == /\ ~IsIgnorable(line) /\ ~StartsWith(line, LIT_GR)
                      /\ ~StartsWith(line, LIT_PP_CONS)
                      /\ ~StartsWith(line, LIT_GC_RF)

\* Faulty variant: a repeated identifier overwrites the posterior string.
GrRow_Overwrite(st, line) ==
    LET hits == RE_GR(line)
    IN  IF hits = NoMatch THEN Return(st, ErrorParsing(line))
        ELSE Continue([st EXCEPT !.pp = Insert(st.pp, hits[1], hits[2])])

\* Faulty variant: a posterior row is accepted only for an identifier the
\* sequence map already holds.
GrRow_RequiresSeq(st, line) ==
    LET hits == RE_GR(line)
    IN  IF hits = NoMatch THEN Return(st, ErrorParsing(line))
        ELSE IF hits[1] \in DOMAIN st.pp THEN Return(st, Duplicate(line))
        ELSE IF hits[1] \notin DOMAIN st.seq THEN Return(st, ErrorParsing(line))
        ELSE Continue([st EXCEPT !.pp = Insert(st.pp, hits[1], hits[2])])

\* Faulty variant: an identifier of the sequence map counts as seen too.
GrRow_ChecksSeqToo(st, line) ==
    LET hits == RE_GR(line)
    IN  IF hits = NoMatch THEN Return(st, ErrorParsing(line))
        ELSE IF hits[1] \in DOMAIN st.pp \cup DOMAIN st.seq
             THEN Return(st, Duplicate(line))
        ELSE Continue([st EXCEPT !.pp = Insert(st.pp, hits[1], hits[2])])

\* The branch "#=GR ".
GrRow(st, line) ==
    LET hits == RE_GR(line)
    IN  IF hits = NoMatch THEN Return(st, ErrorParsing(line))
        ELSE IF hits[1] \in DOMAIN st.pp THEN Return(st, Duplicate(line))
        ELSE Continue([st EXCEPT !.pp = Insert(st.pp, hits[1], hits[2])])

\* Faulty variant: a later consensus row replaces the earlier one.
PpConsRow_Overwrite(st, line) ==
    LET hits == RE_PP_CONS(line)
    IN  IF hits = NoMatch THEN Return(st, ErrorParsing(line))
        ELSE Continue([st EXCEPT !.pp_cons = hits[1]])

\* The branch "#=GC PP_cons".
PpConsRow(st, line) ==
    LET hits == RE_PP_CONS(line)
    IN  IF hits = NoMatch THEN Return(st, ErrorParsing(line))
        ELSE IF st.pp_cons # <<>> THEN Return(st, Duplicate(line))
        ELSE Continue([st EXCEPT !.pp_cons = hits[1]])

\* Faulty variant: the index is pushed for every column, retained or not.
RECURSIVE MaskLoop_PushesEveryIndex(_, _, _, _)
MaskLoop_PushesEveryIndex(chars, idx, m, mi) ==
    IF idx = Len(chars) THEN [mask |-> m, mask_idx |-> mi]
    ELSE MaskLoop_PushesEveryIndex(chars, idx + 1,
                                   Append(m, chars[idx + 1] = "x"),
                                   Append(mi, idx))

\* Faulty variant: the comparison with 'x' ignores the case.
RECURSIVE MaskLoop_IgnoresCase(_, _, _, _)
MaskLoop_IgnoresCase(chars, idx, m, mi) ==
    IF idx = Len(chars) THEN [mask |-> m, mask_idx |-> mi]
    ELSE IF chars[idx + 1] \in {"x", "X"}
         THEN MaskLoop_IgnoresCase(chars, idx + 1, Append(m, TRUE), Append(mi, idx))
         ELSE MaskLoop_IgnoresCase(chars, idx + 1, Append(m, FALSE), mi)

\* for (idx, char) in hits[1].chars().enumerate()
RECURSIVE MaskLoop(_, _, _, _)
MaskLoop(chars, idx, m, mi) ==
    IF idx = Len(chars) THEN [mask |-> m, mask_idx |-> mi]
    ELSE IF chars[idx + 1] = "x"
         THEN MaskLoop(chars, idx + 1, Append(m, TRUE), Append(mi, idx))
         ELSE MaskLoop(chars, idx + 1, Append(m, FALSE), mi)

\* Faulty variant: "already set" is decided by mask_idx instead of mask.
GcRfRow_ChecksMaskIdx(st, line) ==
    LET hits == RE_GC_RF(line)
    IN  IF hits = NoMatch THEN Return(st, ErrorParsing(line))
        ELSE IF st.mask_idx # <<>> THEN Return(st, Duplicate(line))
        ELSE LET built == MaskLoop(hits[1], 0, st.mask, st.mask_idx)
             IN  Continue([st EXCEPT !.mask = built.mask,
                                     !.mask_idx = built.mask_idx])

\* Faulty variant: a line the mask regex rejects is tried as a sequence row.
GcRfRow_FallsBack(st, line) ==
    LET hits == RE_GC_RF(line)
        align == RE_ALIGN(line)
    IN  IF hits = NoMatch
        THEN IF align = NoMatch THEN Return(st, ErrorParsing(line))
             ELSE Continue([st EXCEPT !.seq = Insert(st.seq, align[1], align[2])])
        ELSE IF st.mask # <<>> THEN Return(st, Duplicate(line))
        ELSE LET built == MaskLoop(hits[1], 0, st.mask, st.mask_idx)
             IN  Continue([st EXCEPT !.mask = built.mask,
                                     !.mask_idx = built.mask_idx])

\* Faulty variant: a mask row that retains no column is rejected at once.
GcRfRow_RejectsEmptyMask(st, line) ==
    LET hits == RE_GC_RF(line)
    IN  IF hits = NoMatch THEN Return(st, ErrorParsing(line))
        ELSE IF st.mask # <<>> THEN Return(st, Duplicate(line))
        ELSE LET built == MaskLoop(hits[1], 0, st.mask, st.mask_idx)
             IN  IF built.mask_idx = <<>> THEN Return(st, ErrorParsing(line))
                 ELSE Continue([st EXCEPT !.mask = built.mask,
                                          !.mask_idx = built.mask_idx])

\* The branch "#=GC RF".
GcRfRow(st, line) ==
    LET hits == RE_GC_RF(line)
    IN  IF hits = NoMatch THEN Return(st, ErrorParsing(line))
        ELSE IF st.mask # <<>> THEN Return(st, Duplicate(line))
        ELSE LET built == MaskLoop(hits[1], 0, st.mask, st.mask_idx)
             IN  Continue([st EXCEPT !.mask = built.mask,
                                     !.mask_idx = built.mask_idx])

\* Faulty variant: a row is a duplicate only when its aligned string is the same too.
AlignRow_DuplicateIfEqual(st, line) ==
    LET hits == RE_ALIGN(line)
    IN  IF hits = NoMatch THEN Return(st, ErrorParsing(line))
        ELSE IF hits[1] \in DOMAIN st.seq /\ st.seq[hits[1]] = hits[2]
             THEN Return(st, Duplicate(line))
        ELSE Continue([st EXCEPT !.seq = Insert(st.seq, hits[1], hits[2])])

\* Faulty variant: a line that is no sequence row is skipped.
AlignRow_SkipsMalformed(st, line) ==
    LET hits == RE_ALIGN(line)
    IN  IF hits = NoMatch THEN Continue(st)
        ELSE IF hits[1] \in DOMAIN st.seq THEN Return(st, Duplicate(line))
        ELSE Continue([st EXCEPT !.seq = Insert(st.seq, hits[1], hits[2])])

\* Faulty variant: the duplicate error names the identifier, not the line.
AlignRow_CitesIdentifier(st, line) ==
    LET hits == RE_ALIGN(line)
    IN  IF hits = NoMatch THEN Return(st, ErrorParsing(line))
        ELSE IF hits[1] \in DOMAIN st.seq THEN Return(st, Duplicate(hits[1]))
        ELSE Continue([st EXCEPT !.seq = Insert(st.seq, hits[1], hits[2])])

\* The else branch.
AlignRow(st, line) ==
    LET hits == RE_ALIGN(line)
    IN  IF hits = NoMatch THEN Return(st, ErrorParsing(line))
        ELSE IF hits[1] \in DOMAIN st.seq THEN Return(st, Duplicate(line))
        ELSE Continue([st EXCEPT !.seq = Insert(st.seq, hits[1], hits[2])])

\* Faulty variant: the posterior map is checked before the sequence map.
Validate_PpFirst(st) ==
    IF DOMAIN st.pp = {} THEN MissingPp
    ELSE IF DOMAIN st.seq = {} THEN MissingSeq
    ELSE IF Cardinality(DOMAIN st.seq) # Cardinality(DOMAIN st.pp)
         THEN DifferentLengths
    ELSE IF st.pp_cons = <<>> THEN MissingPpCons
    ELSE IF st.mask = <<>> \/ st.mask_idx = <<>> THEN MissingMask
    ELSE Ok(st)

\* Faulty variant: the mask is checked before the consensus.
Validate_MaskBeforeCons(st) ==
    IF DOMAIN st.seq = {} THEN MissingSeq
    ELSE IF DOMAIN st.pp = {} THEN MissingPp
    ELSE IF Cardinality(DOMAIN st.seq) # Cardinality(DOMAIN st.pp)
         THEN DifferentLengths
    ELSE IF st.mask = <<>> \/ st.mask_idx = <<>> THEN MissingMask
    ELSE IF st.pp_cons = <<>> THEN MissingPpCons
    ELSE Ok(st)

\* Faulty variant: the mask check looks at mask only.
Validate_IgnoresMaskIdx(st) ==
    IF DOMAIN st.seq = {} THEN MissingSeq
    ELSE IF DOMAIN st.pp = {} THEN MissingPp
    ELSE IF Cardinality(DOMAIN st.seq) # Cardinality(DOMAIN st.pp)
         THEN DifferentLengths
    ELSE IF st.pp_cons = <<>> THEN MissingPpCons
    ELSE IF st.mask = <<>> THEN MissingMask
    ELSE Ok(st)

\* Faulty variant: the two maps must have the same keys.
Validate_ComparesKeys(st) ==
    IF DOMAIN st.seq = {} THEN MissingSeq
    ELSE IF DOMAIN st.pp = {} THEN MissingPp
    ELSE IF DOMAIN st.seq # DOMAIN st.pp THEN DifferentLengths
    ELSE IF st.pp_cons = <<>> THEN MissingPpCons
    ELSE IF st.mask = <<>> \/ st.mask_idx = <<>> THEN MissingMask
    ELSE Ok(st)

\* Faulty variant: the consensus check is left out.
Validate_SkipsConsensus(st) ==
    IF DOMAIN st.seq = {} THEN MissingSeq
    ELSE IF DOMAIN st.pp = {} THEN MissingPp
    ELSE IF Cardinality(DOMAIN st.seq) # Cardinality(DOMAIN st.pp)
         THEN DifferentLengths
    ELSE IF st.mask = <<>> \/ st.mask_idx = <<>> THEN MissingMask
    ELSE Ok(st)

\* Faulty variant: every aligned string must be as long as the mask.
Validate_ChecksLengths(st) ==
    IF DOMAIN st.seq = {} THEN MissingSeq
    ELSE IF DOMAIN st.pp = {} THEN MissingPp
    ELSE IF Cardinality(DOMAIN st.seq) # Cardinality(DOMAIN st.pp)
         THEN DifferentLengths
    ELSE IF st.pp_cons = <<>> THEN MissingPpCons
    ELSE IF st.mask = <<>> \/ st.mask_idx = <<>> THEN MissingMask
    ELSE IF \E id \in DOMAIN st.seq : Len(st.seq[id]) # Len(st.mask)
         THEN DifferentLengths
    ELSE Ok(st)

\* The checks after the loop, and the Ok(Self { .. }) that ends them.
Validate(st) ==
    IF DOMAIN st.seq = {} THEN MissingSeq
    ELSE IF DOMAIN st.pp = {} THEN MissingPp
    ELSE IF Cardinality(DOMAIN st.seq) # Cardinality(DOMAIN st.pp)
         THEN DifferentLengths
    ELSE IF st.pp_cons = <<>> THEN MissingPpCons
    ELSE IF st.mask = <<>> \/ st.mask_idx = <<>> THEN MissingMask
    ELSE Ok(st)

(***************************************************************************)
(* get_alignment.                                                          *)
(***************************************************************************)

\* Faulty variant: each character is put in front of the output.
RECURSIVE ProjectLoop_Prepends(_, _, _, _)
ProjectLoop_Prepends(seq_chars, idxs, k, out) ==
    IF k = Len(idxs) THEN Ok(out)
    ELSE LET idx == idxs[k + 1]
         IN  IF idx >= Len(seq_chars) THEN Panic
             ELSE ProjectLoop_Prepends(seq_chars, idxs, k + 1,
                                       <<seq_chars[idx + 1]>> \o out)

\* for &idx in &self.mask_idx { out.push(seq_chars[idx]); }
RECURSIVE ProjectLoop(_, _, _, _)
ProjectLoop(seq_chars, idxs, k, out) ==
    IF k = Len(idxs) THEN Ok(out)
    ELSE LET idx == idxs[k + 1]
         IN  IF idx >= Len(seq_chars) THEN Panic
             ELSE ProjectLoop(seq_chars, idxs, k + 1,
                              Append(out, seq_chars[idx + 1]))

\* Faulty variant: the lookup goes to the posterior map.
GetAlignment_FromPp(self, gene_id) ==
    IF gene_id \notin DOMAIN self.pp THEN MissingSequenceFor(gene_id)
    ELSE ProjectLoop(self.pp[gene_id], self.mask_idx, 0, <<>>)

GetAlignment(self, gene_id) ==
    IF gene_id \notin DOMAIN self.seq THEN MissingSequenceFor(gene_id)
    ELSE ProjectLoop(self.seq[gene_id], self.mask_idx, 0, <<>>)

(***************************************************************************)
(* from_bufreader as a function of the items the reader yields: the loop   *)
(* body applied to one item, and the loop followed by the validation.      *)
(***************************************************************************)

LoopBody(st, it) ==
    IF ~it.ok THEN Return(st, IoError)
    ELSE IF IsIgnorable(it.line) THEN Continue(st)
    ELSE IF IsGrLine(it.line) THEN GrRow(st, it.line)
    ELSE IF IsPpConsLine(it.line) THEN PpConsRow(st, it.line)
    ELSE IF IsGcRfLine(it.line) THEN GcRfRow(st, it.line)
    ELSE AlignRow(st, it.line)

RECURSIVE ScanFrom(_, _, _)
ScanFrom(items, k, st) ==
    IF k > Len(items) THEN Validate(st)
    ELSE LET out == LoopBody(st, items[k])
         IN  IF out.res = Pending THEN ScanFrom(items, k + 1, out.st)
             ELSE out.res

FromBufreader(items) ==
    ScanFrom(items, 1, [seq |-> EmptyMap, pp |-> EmptyMap, pp_cons |-> <<>>,
                        mask |-> <<>>, mask_idx |-> <<>>])

(***************************************************************************)
(* The actions.                                                            *)
(***************************************************************************)

Scanning == pc = "scan" /\ lineno < Len(buf)
Item == buf[lineno + 1]

\* What one pass of the loop body leaves: the locals, and the return if any.
Apply(out) ==
    /\ lineno' = lineno + 1
    /\ seq' = out.st.seq
    /\ pp' = out.st.pp
    /\ pp_cons' = out.st.pp_cons
    /\ mask' = out.st.mask
    /\ mask_idx' = out.st.mask_idx
    /\ ret' = out.res
    /\ pc' = IF out.res = Pending THEN "scan" ELSE "returned"
    /\ UNCHANGED <<buf, calls, rank, rank_calls, taxvars>>

\* line.map_err(ProleError::IoError)?
ReadFails ==
    /\ Scanning
    /\ ~Item.ok
    /\ Apply(Return(Locals, IoError))

\* Faulty variant: the end marker "//" empties the five sections.
SkipLine_ResetsAtEnd ==
    /\ Scanning
    /\ Item.ok
    /\ IsIgnorable(Item.line)
    /\ IF StartsWith(Item.line, LIT_SLASHES)
       THEN Apply(Continue([seq |-> EmptyMap, pp |-> EmptyMap, pp_cons |-> <<>>,
                            mask |-> <<>>, mask_idx |-> <<>>]))
       ELSE Apply(Continue(Locals))

\* Faulty variant: the end marker "//" ends the loop.
SkipLine_StopsAtEnd ==
    /\ Scanning
    /\ Item.ok
    /\ IsIgnorable(Item.line)
    /\ IF StartsWith(Item.line, LIT_SLASHES)
       THEN /\ ret' = Validate(Locals)
            /\ pc' = "returned"
            /\ lineno' = lineno + 1
            /\ UNCHANGED <<buf, seq, pp, pp_cons, mask, mask_idx, calls,
                           rank, rank_calls, taxvars>>
       ELSE Apply(Continue(Locals))

SkipLine ==
    /\ Scanning
    /\ Item.ok
    /\ IsIgnorable(Item.line)
    /\ Apply(Continue(Locals))

GrLine ==
    /\ Scanning
    /\ Item.ok
    /\ IsGrLine(Item.line)
    /\ Apply(GrRow(Locals, Item.line))

PpConsLine ==
    /\ Scanning
    /\ Item.ok
    /\ IsPpConsLine(Item.line)
    /\ Apply(PpConsRow(Locals, Item.line))

GcRfLine ==
    /\ Scanning
    /\ Item.ok
    /\ IsGcRfLine(Item.line)
    /\ Apply(GcRfRow(Locals, Item.line))

AlignLine ==
    /\ Scanning
    /\ Item.ok
    /\ IsAlignLine(Item.line)
    /\ Apply(AlignRow(Locals, Item.line))

\* The reader is exhausted: the loop ends and the validation runs.
EndOfStream ==
    /\ pc = "scan"
    /\ lineno = Len(buf)
    /\ ret' = Validate(Locals)
    /\ pc' = "returned"
    /\ UNCHANGED <<buf, lineno, seq, pp, pp_cons, mask, mask_idx, calls,
                   rank, rank_calls, taxvars>>

\* Faulty variant: a call takes the first retained index out of the structure.
CallGetAlignment_ConsumesMask ==
    /\ pc = "returned"
    /\ ret.tag = "Ok"
    /\ Len(calls) < MaxCalls
    /\ \E gene_id \in GeneIds :
         LET res == GetAlignment(ret.val, gene_id)
         IN  /\ calls' = Append(calls, [gene_id |-> gene_id, res |-> res])
             /\ pc' = IF res = Panic THEN "panicked" ELSE pc
    /\ ret' = [ret EXCEPT !.val.mask_idx =
                  IF @ = <<>> THEN @ ELSE Tail(@)]
    /\ UNCHANGED <<buf, lineno, seq, pp, pp_cons, mask, mask_idx,
                   rank, rank_calls, taxvars>>

\* Faulty variant: a call for an unknown identifier leaves an empty entry
\* for it in the sequence map.
CallGetAlignment_InsertsMissing ==
    /\ pc = "returned"
    /\ ret.tag = "Ok"
    /\ Len(calls) < MaxCalls
    /\ \E gene_id \in GeneIds :
         LET res == GetAlignment(ret.val, gene_id)
         IN  /\ calls' = Append(calls, [gene_id |-> gene_id, res |-> res])
             /\ pc' = IF res = Panic THEN "panicked" ELSE pc
             /\ ret' = IF gene_id \in DOMAIN ret.val.seq THEN ret
                       ELSE [ret EXCEPT !.val.seq = Insert(@, gene_id, <<>>)]
    /\ UNCHANGED <<buf, lineno, seq, pp, pp_cons, mask, mask_idx,
                   rank, rank_calls, taxvars>>

\* A caller holding the returned structure asks for one alignment.
CallGetAlignment ==
    /\ pc = "returned"
    /\ ret.tag = "Ok"
    /\ Len(calls) < MaxCalls
    /\ \E gene_id \in GeneIds :
         LET res == GetAlignment(ret.val, gene_id)
         IN  /\ calls' = Append(calls, [gene_id |-> gene_id, res |-> res])
             /\ pc' = IF res = Panic THEN "panicked" ELSE pc
    /\ UNCHANGED <<buf, lineno, seq, pp, pp_cons, mask, mask_idx, ret,
                   rank, rank_calls, taxvars>>

Next ==
    \/ ReadFails
    \/ SkipLine
    \/ GrLine
    \/ PpConsLine
    \/ GcRfLine
    \/ AlignLine
    \/ EndOfStream
    \/ CallGetAlignment

Spec == Init /\ [][Next]_vars

\* The same program reading the streams of ShapeStreams.
SpecShapes == InitShapes /\ [][Next]_vars

\* The same program reading the streams of SkipStreams.
SpecSkip == InitSkip /\ [][Next]_vars

(***************************************************************************)
(* gtdb::taxonomy_rank: the enum TaxonomyRank, the array TAXONOMY_RANKS,   *)
(* and the methods lower and higher.                                       *)
(***************************************************************************)

\* The variants of the enum, each with its discriminant (self as usize).
Discriminant ==
    [Domain |-> 0, Phylum |-> 1, Class |-> 2, Order |-> 3, Family |-> 4,
     Genus |-> 5, Species |-> 6]

TaxonomyRank == DOMAIN Discriminant

TAXONOMY_RANKS ==
    <<"Domain", "Phylum", "Class", "Order", "Family", "Genus", "Species">>

\* TAXONOMY_RANKS[i], the array indexed from 0.
RankAt(i) == TAXONOMY_RANKS[i + 1]

\* Option<TaxonomyRank>
None == [tag |-> "None"]
Some(r) == [tag |-> "Some", val |-> r]

\* usize::saturating_sub
SaturatingSub(a, b) == IF a > b THEN a - b ELSE 0

\* Faulty variant: Species has a lower rank, itself.
Lower_Saturates(self) ==
    IF self = "Species" THEN Some(self)
    ELSE Some(RankAt(Discriminant[self] + 1))

\* TaxonomyRank::lower
Lower(self) ==
    IF self = "Species" THEN None
    ELSE Some(RankAt(Discriminant[self] + 1))

\* TaxonomyRank::higher
Higher(self) ==
    IF self = "Domain" THEN None
    ELSE LET end_idx == SaturatingSub(Discriminant[self], 1)
         IN  Some(RankAt(end_idx))

\* A caller starts from any rank and walks the ranks with lower and higher.
InitRank ==
    /\ rank \in TaxonomyRank
    /\ rank_calls = <<>>
    /\ tax_string = <<>>
    /\ tax_ret = Pending
    /\ tax_gets = <<>>
    /\ buf = <<>>
    /\ lineno = 0
    /\ seq = EmptyMap
    /\ pp = EmptyMap
    /\ pp_cons = <<>>
    /\ mask = <<>>
    /\ mask_idx = <<>>
    /\ pc = "scan"
    /\ ret = Pending
    /\ calls = <<>>

\* The caller keeps the rank returned, if any.
RankCall(op, res) ==
    /\ Len(rank_calls) < MaxRankCalls
    /\ rank_calls' = Append(rank_calls, [op |-> op, self |-> rank, res |-> res])
    /\ rank' = IF res = None THEN rank ELSE res.val
    /\ UNCHANGED <<buf, lineno, seq, pp, pp_cons, mask, mask_idx, pc, ret, calls,
                   taxvars>>

CallLower == RankCall("lower", Lower(rank))

CallHigher == RankCall("higher", Higher(rank))

NextRank ==
    \/ CallLower
    \/ CallHigher

SpecRank == InitRank /\ [][NextRank]_vars

(***************************************************************************)
(* gtdb::taxonomy_rank: the four iterators over TAXONOMY_RANKS.  A slice   *)
(* whose range lies outside the array panics; what an iterator yields is   *)
(* kept as the sequence collect() makes of it.                             *)
(***************************************************************************)

Items(s) == [tag |-> "Items", val |-> s]

\* TAXONOMY_RANKS[start..]
SliceFrom(start) ==
    IF start > Len(TAXONOMY_RANKS) THEN Panic
    ELSE Items(SubSeq(TAXONOMY_RANKS, start + 1, Len(TAXONOMY_RANKS)))

\* TAXONOMY_RANKS[..end]
SliceTo(end) ==
    IF end > Len(TAXONOMY_RANKS) THEN Panic
    ELSE Items(SubSeq(TAXONOMY_RANKS, 1, end))

\* TAXONOMY_RANKS[..=end]
SliceToInclusive(end) ==
    IF end >= Len(TAXONOMY_RANKS) THEN Panic
    ELSE Items(SubSeq(TAXONOMY_RANKS, 1, end + 1))

\* .iter().rev()
Rev(slice) ==
    IF slice = Panic THEN Panic
    ELSE Items([i \in 1..Len(slice.val) |-> slice.val[Len(slice.val) + 1 - i]])

\* TaxonomyRank::lower_ranks
LowerRanks(self) ==
    LET start_idx == Discriminant[self] + 1
    IN  SliceFrom(start_idx)

\* TaxonomyRank::lower_ranks_inclusive
LowerRanksInclusive(self) ==
    LET start_idx == Discriminant[self]
    IN  SliceFrom(start_idx)

\* Faulty variant: the slice is not reversed.
HigherRanks_NotReversed(self) ==
    LET end_idx == IF self = "Domain" THEN 0 ELSE Discriminant[self]
    IN  SliceTo(end_idx)

\* TaxonomyRank::higher_ranks
HigherRanks(self) ==
    LET end_idx == IF self = "Domain" THEN 0 ELSE Discriminant[self]
    IN  Rev(SliceTo(end_idx))

\* TaxonomyRank::higher_ranks_inclusive
HigherRanksInclusive(self) ==
    LET end_idx == Discriminant[self]
    IN  Rev(SliceToInclusive(end_idx))

\* The caller collects an iterator and goes on with its rank or with one of
\* the ranks yielded; a panic ends the caller.
IterCall(op, res) ==
    /\ Len(rank_calls) < MaxIterCalls
    /\ \A k \in 1..Len(rank_calls) : rank_calls[k].res # Panic
    /\ rank_calls' = Append(rank_calls, [op |-> op, self |-> rank, res |-> res])
    /\ rank' \in {rank} \cup
                 (IF res = Panic THEN {}
                  ELSE {res.val[i] : i \in 1..Len(res.val)})
    /\ UNCHANGED <<buf, lineno, seq, pp, pp_cons, mask, mask_idx, pc, ret, calls,
                   taxvars>>

CallLowerRanks == IterCall("lower_ranks", LowerRanks(rank))

CallLowerRanksInclusive ==
    IterCall("lower_ranks_inclusive", LowerRanksInclusive(rank))

CallHigherRanks == IterCall("higher_ranks", HigherRanks(rank))

CallHigherRanksInclusive ==
    IterCall("higher_ranks_inclusive", HigherRanksInclusive(rank))

NextRankIter ==
    \/ CallLowerRanks
    \/ CallLowerRanksInclusive
    \/ CallHigherRanks
    \/ CallHigherRanksInclusive

SpecRankIter == InitRank /\ [][NextRankIter]_vars

(***************************************************************************)
(* gtdb::taxonomy: Taxonomy::from_string and Taxonomy::get.                *)
(***************************************************************************)

\* str::split(';'): the pieces between the separators, cur being the piece
\* that is open at position k.
RECURSIVE SplitFrom(_, _, _, _, _)
SplitFrom(string, sep, k, cur, done) ==
    IF k > Len(string) THEN Append(done, cur)
    ELSE IF string[k] = sep
         THEN SplitFrom(string, sep, k + 1, <<>>, Append(done, cur))
         ELSE SplitFrom(string, sep, k + 1, Append(cur, string[k]), done)

Split(string, sep) == SplitFrom(string, sep, 1, <<>>, <<>>)

\* str::trim_start and str::trim_end
RECURSIVE TrimStart(_)
TrimStart(s) ==
    IF s # <<>> /\ IsSpace(s[1]) THEN TrimStart(Tail(s)) ELSE s

RECURSIVE TrimEnd(_)
TrimEnd(s) ==
    IF s # <<>> /\ IsSpace(s[Len(s)]) THEN TrimEnd(SubSeq(s, 1, Len(s) - 1))
    ELSE s

\* Faulty variant: only the leading whitespace is removed.
Trim_StartOnly(s) == TrimStart(s)

\* str::trim
Trim(s) == TrimEnd(TrimStart(s))

\* format!("{}", n) of a usize
RECURSIVE Decimal(_)
Decimal(n) ==
    LET digit == <<"0", "1", "2", "3", "4", "5", "6", "7", "8", "9">>[(n % 10) + 1]
    IN  IF n < 10 THEN <<digit>> ELSE Append(Decimal(n \div 10), digit)

\* The tuple struct Taxon(pub String): the string is its field 0.
Taxon(s) == <<s>>

\* ProleError::Exit(format!("Taxonomy string has {} fields, expected 7", n))
WrongFieldCount(n) ==
    [tag |-> "Err", kind |-> "Exit",
     msg |-> <<"Taxonomy string has ">> \o Decimal(n) \o <<" fields, expected 7">>]

\* Taxonomy::from_string
FromString(string) ==
    LET string_split == Split(string, ";")
    IN  IF Len(string_split) # 7 THEN WrongFieldCount(Len(string_split))
        ELSE Ok([domain  |-> Taxon(Trim(string_split[1])),
                 phylum  |-> Taxon(Trim(string_split[2])),
                 class   |-> Taxon(Trim(string_split[3])),
                 order   |-> Taxon(Trim(string_split[4])),
                 family  |-> Taxon(Trim(string_split[5])),
                 genus   |-> Taxon(Trim(string_split[6])),
                 species |-> Taxon(Trim(string_split[7]))])

\* Taxonomy::get
Get(self, r) ==
    CASE r = "Domain"  -> self.domain
      [] r = "Phylum"  -> self.phylum
      [] r = "Class"   -> self.class
      [] r = "Order"   -> self.order
      [] r = "Family"  -> self.family
      [] r = "Genus"   -> self.genus
      [] r = "Species" -> self.species

\* The texts between the separators of an argument: empty, a plain name,
\* and a name with a blank inside and whitespace around it.
FieldTexts ==
    { <<>>, <<"d">>, <<" ", "a", " ", "b", "\t">> }

RECURSIVE Join(_)
Join(fields) ==
    IF Len(fields) = 1 THEN fields[1]
    ELSE fields[1] \o <<";">> \o Join(Tail(fields))

\* The arguments of from_string: up to max texts joined by ';'.
TaxonomyStrings(max) ==
    UNION { {Join(f) : f \in [1..n -> FieldTexts]} : n \in 1..max }

InitTaxonomy ==
    /\ tax_string \in TaxonomyStrings(MaxFields)
    /\ tax_ret = Pending
    /\ tax_gets = <<>>
    /\ rank = "Domain"
    /\ rank_calls = <<>>
    /\ buf = <<>>
    /\ lineno = 0
    /\ seq = EmptyMap
    /\ pp = EmptyMap
    /\ pp_cons = <<>>
    /\ mask = <<>>
    /\ mask_idx = <<>>
    /\ pc = "scan"
    /\ ret = Pending
    /\ calls = <<>>

CallFromString ==
    /\ tax_ret = Pending
    /\ tax_ret' = FromString(tax_string)
    /\ UNCHANGED <<buf, lineno, seq, pp, pp_cons, mask, mask_idx, pc, ret, calls,
                   rank, rank_calls, tax_string, tax_gets>>

CallGet ==
    /\ tax_ret.tag = "Ok"
    /\ Len(tax_gets) < MaxGets
    /\ \E r \in TaxonomyRank :
          tax_gets' = Append(tax_gets, [rank |-> r, res |-> Get(tax_ret.val, r)])
    /\ UNCHANGED <<buf, lineno, seq, pp, pp_cons, mask, mask_idx, pc, ret, calls,
                   rank, rank_calls, tax_string, tax_ret>>

NextTaxonomy ==
    \/ CallFromString
    \/ CallGet

SpecTaxonomy == InitTaxonomy /\ [][NextTaxonomy]_vars

(***************************************************************************)
(* Vocabulary of the properties.                                           *)
(***************************************************************************)

\* from_bufreader has returned.
Returned == pc # "scan"

\* The structure a successful from_bufreader returned.
File == ret.val

\* The number of true entries of a mask boolean sequence.
TrueCount(m) == Cardinality({i \in 1..Len(m) : m[i]})

\* An error value whose message is the literal followed by arg.
IsExit(r, literal, arg) ==
    /\ r.tag = "Err"
    /\ r.kind = "Exit"
    /\ r.msg # <<>>
    /\ r.msg[1] = literal
    /\ Drop(r.msg, 1) = arg

\* Some retained index lies past the end of the aligned string of gene_id.
ReadsPastEnd(gene_id) ==
    \E k \in 1..Len(File.mask_idx) : File.mask_idx[k] >= Len(File.seq[gene_id])

(***************************************************************************)
(* C1.  For every identifier of the sequence map of a parsed file whose    *)
(* aligned string has a character at every retained index, get_alignment   *)
(* returns the string whose k-th character is the character at position    *)
(* mask_idx[k] of the aligned string, for k = 0 .. |mask_idx|-1, in that   *)
(* order; it returns a string for no other identifier of the map.          *)
(***************************************************************************)
C1_Projection ==
    \A c \in 1..Len(calls) :
        LET id == calls[c].gene_id
            res == calls[c].res
        IN  id \in DOMAIN File.seq =>
              IF ReadsPastEnd(id) THEN res.tag # "Ok"
              ELSE /\ res.tag = "Ok"
                   /\ Len(res.val) = Len(File.mask_idx)
                   /\ \A k \in 1..Len(File.mask_idx) :
                         res.val[k] = File.seq[id][File.mask_idx[k] + 1]

\* A projection of two retained columns that skips the column between them.
C1_Witness ==
    \E c \in 1..Len(calls) :
        /\ calls[c].gene_id \in DOMAIN File.seq
        /\ calls[c].res.tag = "Ok"
        /\ Len(File.mask_idx) = 2
        /\ File.mask_idx[2] > File.mask_idx[1] + 1
        /\ calls[c].res.val[1] # calls[c].res.val[2]

(***************************************************************************)
(* C2.  For every identifier of the sequence map of a parsed file, the     *)
(* string get_alignment returns has as many characters as the mask         *)
(* boolean sequence has true entries.                                      *)
(***************************************************************************)
C2_ResultLength ==
    \A c \in 1..Len(calls) :
        (calls[c].gene_id \in DOMAIN File.seq /\ calls[c].res.tag = "Ok") =>
            Len(calls[c].res.val) = TrueCount(File.mask)

\* A returned string shorter than the mask, as long as its true entries.
C2_Witness ==
    \E c \in 1..Len(calls) :
        /\ calls[c].gene_id \in DOMAIN File.seq
        /\ calls[c].res.tag = "Ok"
        /\ Len(calls[c].res.val) = TrueCount(File.mask)
        /\ 0 < TrueCount(File.mask)
        /\ TrueCount(File.mask) < Len(File.mask)

(***************************************************************************)
(* C3.  When a retained index is >= the length of the aligned string of    *)
(* the requested identifier, get_alignment returns an error value to the   *)
(* caller and does not panic.  Refuted: seq_chars[idx] is not guarded, so  *)
(* the call panics.                                                        *)
(***************************************************************************)
C3_OutOfRangeIsAnError ==
    \A c \in 1..Len(calls) :
        (calls[c].gene_id \in DOMAIN File.seq /\ ReadsPastEnd(calls[c].gene_id)) =>
            /\ calls[c].res.tag = "Err"
            /\ pc # "panicked"

(***************************************************************************)
(* C4.  get_alignment(id) returns the error "Missing sequence for: <id>"   *)
(* whenever id is no key of the sequence map, a key of the posterior map   *)
(* included, and returns Ok only for keys of the sequence map.             *)
(***************************************************************************)
C4_NotFound ==
    \A c \in 1..Len(calls) :
        LET id == calls[c].gene_id
            res == calls[c].res
        IN  /\ id \notin DOMAIN File.seq =>
                 IsExit(res, "Missing sequence for: ", id)
            /\ res.tag = "Ok" => id \in DOMAIN File.seq

\* A call for an identifier that only the posterior map holds was answered.
C4_Witness ==
    \E c \in 1..Len(calls) :
        /\ calls[c].gene_id \in DOMAIN File.pp
        /\ calls[c].gene_id \notin DOMAIN File.seq
        /\ calls[c].res.tag = "Err"

(***************************************************************************)
(* Vocabulary of the properties about a stream.                            *)
(***************************************************************************)

Min(S) == CHOOSE x \in S : \A y \in S : x <= y

\* What the classification of the source makes of each item a reader may
\* yield: the section it is a well-formed row of (or "ignorable",
\* "malformed", "unreadable"), with its identifier and its value token.
Row ==
    [it \in Pool \cup ShapePool \cup SkipPool |->
        IF ~it.ok THEN [kind |-> "unreadable", id |-> <<>>, value |-> <<>>]
        ELSE IF IsIgnorable(it.line)
             THEN [kind |-> "ignorable", id |-> <<>>, value |-> <<>>]
        ELSE IF IsGrLine(it.line) /\ RE_GR(it.line) # NoMatch
             THEN [kind |-> "pp", id |-> RE_GR(it.line)[1],
                   value |-> RE_GR(it.line)[2]]
        ELSE IF IsPpConsLine(it.line) /\ RE_PP_CONS(it.line) # NoMatch
             THEN [kind |-> "cons", id |-> <<>>, value |-> RE_PP_CONS(it.line)[1]]
        ELSE IF IsGcRfLine(it.line) /\ RE_GC_RF(it.line) # NoMatch
             THEN [kind |-> "mask", id |-> <<>>, value |-> RE_GC_RF(it.line)[1]]
        ELSE IF IsAlignLine(it.line) /\ RE_ALIGN(it.line) # NoMatch
             THEN [kind |-> "seq", id |-> RE_ALIGN(it.line)[1],
                   value |-> RE_ALIGN(it.line)[2]]
        ELSE [kind |-> "malformed", id |-> <<>>, value |-> <<>>]]

\* Item i of the stream is a well-formed row of the section.
SeqRowAt(i)    == Row[buf[i]].kind = "seq"
PpRowAt(i)     == Row[buf[i]].kind = "pp"
ConsRowAt(i)   == Row[buf[i]].kind = "cons"
MaskRowAt(i)   == Row[buf[i]].kind = "mask"
IgnorableAt(i) == Row[buf[i]].kind = "ignorable"

SeqIdAt(i)     == Row[buf[i]].id
SeqStringAt(i) == Row[buf[i]].value
PpIdAt(i)      == Row[buf[i]].id
ConsValueAt(i) == Row[buf[i]].value
MaskValueAt(i) == Row[buf[i]].value

SeqRows  == {i \in 1..Len(buf) : SeqRowAt(i)}
PpRows   == {i \in 1..Len(buf) : PpRowAt(i)}
ConsRows == {i \in 1..Len(buf) : ConsRowAt(i)}
MaskRows == {i \in 1..Len(buf) : MaskRowAt(i)}

\* The sequence rows (posterior rows) that are the second to carry their identifier.
SecondSeqRows ==
    {j \in SeqRows :
        Cardinality({i \in SeqRows : i < j /\ SeqIdAt(i) = SeqIdAt(j)}) = 1}
SecondPpRows ==
    {j \in PpRows :
        Cardinality({i \in PpRows : i < j /\ PpIdAt(i) = PpIdAt(j)}) = 1}

\* No line of the stream raises an error: every item is read, has one of the
\* five shapes, and repeats no identifier of its section and no single row.
CleanStream ==
    /\ \A i \in 1..Len(buf) :
          IgnorableAt(i) \/ SeqRowAt(i) \/ PpRowAt(i) \/ ConsRowAt(i) \/ MaskRowAt(i)
    /\ SecondSeqRows = {}
    /\ SecondPpRows = {}
    /\ Cardinality(ConsRows) <= 1
    /\ Cardinality(MaskRows) <= 1

\* No mask row of the stream retains a column.
NoRetainedColumn ==
    \A j \in MaskRows : \A k \in 1..Len(MaskValueAt(j)) : MaskValueAt(j)[k] # "x"

(***************************************************************************)
(* C5.  If two sequence-alignment rows of the stream carry the same        *)
(* identifier, from_bufreader returns an error and no structure and reads  *)
(* no item after the second such row; when the loop reaches that row (no   *)
(* earlier item made from_bufreader return) the error is                   *)
(* "Duplicate: <line>" naming it, whatever the two aligned strings are and *)
(* whatever lies between the two rows.                                     *)
(***************************************************************************)
C5_DuplicateSeq ==
    (Returned /\ SecondSeqRows # {}) =>
        LET j == Min(SecondSeqRows)
        IN  /\ ret.tag = "Err"
            /\ lineno <= j
            /\ lineno = j => IsExit(ret, "Duplicate: ", buf[j].line)

\* Two rows of one identifier with different aligned strings and another
\* line between them; the parse failed at the second.
C5_Witness ==
    /\ Returned
    /\ lineno = 3
    /\ SecondSeqRows = {3}
    /\ SeqRowAt(1)
    /\ ~SeqRowAt(2)
    /\ SeqStringAt(1) # SeqStringAt(3)
    /\ IsExit(ret, "Duplicate: ", buf[3].line)

(***************************************************************************)
(* C6.  If two per-sequence posterior rows of the stream carry the same    *)
(* identifier, from_bufreader returns an error and reads no item after the *)
(* second such row; when the loop reaches that row the error is            *)
(* "Duplicate: <line>" naming it.                                          *)
(***************************************************************************)
C6_DuplicatePp ==
    (Returned /\ SecondPpRows # {}) =>
        LET j == Min(SecondPpRows)
        IN  /\ ret.tag = "Err"
            /\ lineno <= j
            /\ lineno = j => IsExit(ret, "Duplicate: ", buf[j].line)

\* Two posterior rows of one identifier, a sequence row between them; the
\* parse failed at the second.
C6_Witness ==
    /\ Returned
    /\ lineno = 3
    /\ SecondPpRows = {3}
    /\ PpRowAt(1)
    /\ SeqRowAt(2)
    /\ IsExit(ret, "Duplicate: ", buf[3].line)

(***************************************************************************)
(* C7.  At most one consensus row is accepted: a well-formed consensus row *)
(* that the loop takes after an earlier well-formed one makes              *)
(* from_bufreader return "Duplicate: <line>" there, and on success pp_cons *)
(* is the value of the one consensus row of the stream.                    *)
(***************************************************************************)
C7_SingleConsensus ==
    /\ \A j \in 1..lineno :
          (ConsRowAt(j) /\ \E i \in 1..(j - 1) : ConsRowAt(i)) =>
              /\ lineno = j
              /\ IsExit(ret, "Duplicate: ", buf[j].line)
    /\ (Returned /\ ret.tag = "Ok") =>
          \E j \in 1..Len(buf) :
              /\ ConsRows = {j}
              /\ File.pp_cons = ConsValueAt(j)

\* A second consensus row, with another value than the first, was refused.
C7_Witness ==
    /\ Returned
    /\ \E i \in 1..(lineno - 1) :
          /\ ConsRowAt(i)
          /\ ConsRowAt(lineno)
          /\ ConsValueAt(i) # ConsValueAt(lineno)
    /\ IsExit(ret, "Duplicate: ", buf[lineno].line)

(***************************************************************************)
(* C8.  At most one reference-mask row is accepted: a well-formed mask row *)
(* that the loop takes after an earlier well-formed one, even one without  *)
(* any x, makes from_bufreader return "Duplicate: <line>" there; mask and  *)
(* mask_idx are empty or built from exactly one row of the stream.         *)
(***************************************************************************)
C8_SingleMask ==
    /\ \A j \in 1..lineno :
          (MaskRowAt(j) /\ \E i \in 1..(j - 1) : MaskRowAt(i)) =>
              /\ lineno = j
              /\ IsExit(ret, "Duplicate: ", buf[j].line)
    /\ \/ mask = <<>> /\ mask_idx = <<>>
       \/ \E j \in 1..lineno :
             /\ MaskRowAt(j)
             /\ Len(mask) = Len(MaskValueAt(j))
             /\ \A i \in 1..Len(mask) : mask[i] = (MaskValueAt(j)[i] = "x")
             /\ {mask_idx[k] + 1 : k \in 1..Len(mask_idx)}
                   = {i \in 1..Len(mask) : mask[i]}
             /\ \A k \in 1..(Len(mask_idx) - 1) : mask_idx[k] < mask_idx[k + 1]

\* A mask row was refused after a mask row that retains no column.
C8_Witness ==
    /\ Returned
    /\ \E i \in 1..(lineno - 1) :
          /\ MaskRowAt(i)
          /\ \A k \in 1..Len(MaskValueAt(i)) : MaskValueAt(i)[k] # "x"
          /\ MaskRowAt(lineno)
    /\ mask # <<>>
    /\ mask_idx = <<>>
    /\ IsExit(ret, "Duplicate: ", buf[lineno].line)

(***************************************************************************)
(* C9.  When no line raised an error and the validation fails, the error   *)
(* is that of the first violated invariant in the order: no sequence row,  *)
(* no posterior row, different numbers of sequence and posterior rows, no  *)
(* consensus row, no mask row with a retained column; the five errors are  *)
(* pairwise distinct.                                                      *)
(***************************************************************************)
C9_FirstViolated ==
    /\ Cardinality({MissingSeq, MissingPp, DifferentLengths, MissingPpCons,
                    MissingMask}) = 5
    /\ (Returned /\ CleanStream) =>
          IF SeqRows = {} THEN IsExit(ret, "Missing seq", <<>>)
          ELSE IF PpRows = {} THEN IsExit(ret, "Missing pp", <<>>)
          ELSE IF Cardinality(SeqRows) # Cardinality(PpRows)
               THEN IsExit(ret, "Seq and pp have different lengths", <<>>)
          ELSE IF ConsRows = {} THEN IsExit(ret, "Missing PP_cons", <<>>)
          ELSE IF NoRetainedColumn THEN IsExit(ret, "Missing mask", <<>>)
          ELSE TRUE

\* Posterior rows, consensus and mask are all missing; the posterior rows
\* are reported.
C9_Witness ==
    /\ Returned
    /\ CleanStream
    /\ SeqRows # {}
    /\ PpRows = {}
    /\ ConsRows = {}
    /\ MaskRows = {}
    /\ IsExit(ret, "Missing pp", <<>>)

(***************************************************************************)
(* C10 as stated.  A stream with a sequence row, no mask row and no        *)
(* consensus row, none of whose lines raises an error, fails with the      *)
(* error that names the missing mask.  Refuted: the posterior rows and the *)
(* consensus are checked first.                                            *)
(***************************************************************************)
C10_Original ==
    (Returned /\ CleanStream /\ SeqRows # {} /\ MaskRows = {} /\ ConsRows = {}) =>
        IsExit(ret, "Missing mask", <<>>)

(***************************************************************************)
(* C10 as amended.  A stream with a sequence row, no mask row and no       *)
(* consensus row fails, and never with the error naming the missing mask:  *)
(* when no line raised an error it fails with "Missing pp" if it has no    *)
(* posterior row, with "Seq and pp have different lengths" if it has       *)
(* another number of posterior rows than of sequence rows, and with        *)
(* "Missing PP_cons" otherwise.                                            *)
(***************************************************************************)
C10_NoMaskNoConsensus ==
    (Returned /\ SeqRows # {} /\ MaskRows = {} /\ ConsRows = {}) =>
        /\ ret.tag = "Err"
        /\ ~IsExit(ret, "Missing mask", <<>>)
        /\ CleanStream =>
              IF PpRows = {} THEN IsExit(ret, "Missing pp", <<>>)
              ELSE IF Cardinality(SeqRows) # Cardinality(PpRows)
                   THEN IsExit(ret, "Seq and pp have different lengths", <<>>)
              ELSE IsExit(ret, "Missing PP_cons", <<>>)

\* A sequence row and its posterior row, no consensus and no mask: the
\* consensus is reported.
C10_Witness ==
    /\ Returned
    /\ CleanStream
    /\ SeqRows # {}
    /\ Cardinality(PpRows) = Cardinality(SeqRows)
    /\ MaskRows = {}
    /\ ConsRows = {}
    /\ IsExit(ret, "Missing PP_cons", <<>>)

(***************************************************************************)
(* C11.  Every structure a successful from_bufreader returns has a         *)
(* non-empty sequence map, a non-empty posterior map, as many keys in one  *)
(* as in the other, a non-empty pp_cons, and non-empty mask and mask_idx.  *)
(***************************************************************************)
C11_ReturnedStructure ==
    (Returned /\ ret.tag = "Ok") =>
        /\ DOMAIN File.seq # {}
        /\ DOMAIN File.pp # {}
        /\ Cardinality(DOMAIN File.seq) = Cardinality(DOMAIN File.pp)
        /\ Len(File.pp_cons) > 0
        /\ Len(File.mask) > 0
        /\ Len(File.mask_idx) > 0

\* A structure was returned.
C11_Witness ==
    /\ Returned
    /\ ret.tag = "Ok"
    /\ Len(File.mask) > Len(File.mask_idx)
    /\ calls = <<>>

(***************************************************************************)
(* C13.  Two get_alignment calls for one identifier on the same parsed     *)
(* structure give the same result (the same string, or the same error),    *)
(* whatever other calls are made between them.                             *)
(***************************************************************************)
C13_SameResult ==
    \A c \in 1..Len(calls) : \A d \in 1..Len(calls) :
        calls[c].gene_id = calls[d].gene_id => calls[c].res = calls[d].res

\* A string returned twice for one identifier, a call for another
\* identifier between the two.
C13_Witness ==
    /\ Len(calls) = 3
    /\ calls[1].gene_id = calls[3].gene_id
    /\ calls[2].gene_id # calls[1].gene_id
    /\ calls[1].res.tag = "Ok"
    /\ calls[3].res = calls[1].res

(***************************************************************************)
(* C14.  The validation compares the numbers of keys only: a stream none   *)
(* of whose lines raises an error, with as many posterior rows as sequence *)
(* rows (at least one), a consensus row and a mask row that retains a      *)
(* column, parses successfully whatever the identifiers are, and the maps  *)
(* returned hold the identifiers of the rows.                              *)
(***************************************************************************)
C14_CardinalityOnly ==
    ( /\ Returned
      /\ CleanStream
      /\ SeqRows # {}
      /\ Cardinality(SeqRows) = Cardinality(PpRows)
      /\ ConsRows # {}
      /\ ~NoRetainedColumn ) =>
        /\ ret.tag = "Ok"
        /\ DOMAIN File.seq = {SeqIdAt(i) : i \in SeqRows}
        /\ DOMAIN File.pp = {PpIdAt(i) : i \in PpRows}

\* A structure whose two maps share no key.
C14_Witness ==
    /\ Returned
    /\ ret.tag = "Ok"
    /\ DOMAIN File.seq \cap DOMAIN File.pp = {}
    /\ DOMAIN File.seq # {}

(***************************************************************************)
(* C15.  from_bufreader returns an error and no structure, or a structure  *)
(* built from every line of the stream that passed the five checks: the    *)
(* loop took every item, none raised an error, the maps hold every         *)
(* sequence row and every posterior row, pp_cons is the consensus row and  *)
(* the mask is the mask row.                                               *)
(***************************************************************************)
C15_AllOrNothing ==
    Returned =>
        IF ret.tag = "Ok"
        THEN /\ lineno = Len(buf)
             /\ CleanStream
             /\ DOMAIN File.seq = {SeqIdAt(i) : i \in SeqRows}
             /\ \A i \in SeqRows : File.seq[SeqIdAt(i)] = SeqStringAt(i)
             /\ DOMAIN File.pp = {PpIdAt(i) : i \in PpRows}
             /\ \A i \in PpRows : File.pp[PpIdAt(i)] = Row[buf[i]].value
             /\ \E i \in ConsRows : File.pp_cons = ConsValueAt(i)
             /\ \E i \in MaskRows :
                   /\ Len(File.mask) = Len(MaskValueAt(i))
                   /\ \E k \in 1..Len(MaskValueAt(i)) : MaskValueAt(i)[k] = "x"
             /\ Cardinality(SeqRows) = Cardinality(PpRows)
             /\ SeqRows # {}
        ELSE /\ ret.tag = "Err"
             /\ DOMAIN ret = {"tag", "kind", "msg"}

\* An error returned before the last item of the stream was taken.
C15_Witness ==
    /\ Returned
    /\ ret.tag = "Err"
    /\ lineno > 1
    /\ lineno < Len(buf)
    /\ \A i \in 1..lineno - 1 : SeqRowAt(i) \/ PpRowAt(i) \/ ConsRowAt(i)

(***************************************************************************)
(* Vocabulary of the properties about the shape of a line.                 *)
(***************************************************************************)

\* m and mi are the boolean sequence and the retained indices of the mask
\* value v.
BuiltFrom(m, mi, v) ==
    /\ Len(m) = Len(v)
    /\ \A k \in 1..Len(v) : m[k] = (v[k] = "x")
    /\ \A k \in 1..Len(mi) - 1 : mi[k] < mi[k + 1]
    /\ {mi[k] : k \in 1..Len(mi)} = {j - 1 : j \in {k \in 1..Len(m) : m[k]}}
    /\ Len(mi) = TrueCount(m)

\* The line begins with one of the three annotation prefixes.
HasAnnotationPrefix(line) ==
    \/ StartsWith(line, LIT_GR)
    \/ StartsWith(line, LIT_PP_CONS)
    \/ StartsWith(line, LIT_GC_RF)

\* The annotation prefix the line begins with.
PrefixOf(line) ==
    IF StartsWith(line, LIT_GR) THEN LIT_GR
    ELSE IF StartsWith(line, LIT_PP_CONS) THEN LIT_PP_CONS
    ELSE LIT_GC_RF

\* The line is the row its prefix announces: after "#=GR " the identifier,
\* blanks, the token PP, blanks and the value token; after the two other
\* prefixes blanks and the value token; nothing before or after.
AnnotationShape(line) ==
    LET rest == Drop(line, Len(PrefixOf(line)))
        toks == Tokens(rest)
    IN  /\ rest # <<>>
        /\ ~IsSpace(rest[Len(rest)])
        /\ IF StartsWith(line, LIT_GR)
           THEN ~IsSpace(rest[1]) /\ Len(toks) = 3 /\ toks[2] = LIT_PP
           ELSE IsSpace(rest[1]) /\ Len(toks) = 1

\* The last token of the line.
ValueToken(line) == Tokens(line)[Len(Tokens(line))]

\* The line is a non-blank run, a run of blanks and a non-blank run; a is
\* the end of the first run and b the start of the second.
SplitsAt(line, a, b) ==
    /\ \A k \in 1..a : ~IsSpace(line[k])
    /\ \A k \in a + 1..b - 1 : IsSpace(line[k])
    /\ \A k \in b..Len(line) : ~IsSpace(line[k])

TwoTokenShape(line) ==
    \E a \in 1..Len(line) : \E b \in a + 2..Len(line) : SplitsAt(line, a, b)

(***************************************************************************)
(* C12.  The mask of the structure is built from the value token v of the  *)
(* mask row: it has the length of v, mask[i] is true exactly where v has   *)
(* the lower-case x (an upper-case X gives false), and mask_idx lists      *)
(* exactly the true indices, counted from 0, in strictly ascending order,  *)
(* so it is as long as the mask has true entries.                          *)
(***************************************************************************)
C12_MaskOfRow ==
    (MaskRows # {} /\ lineno >= Min(MaskRows)) =>
        LET v == MaskValueAt(Min(MaskRows))
        IN  /\ BuiltFrom(mask, mask_idx, v)
            /\ (ret.tag = "Ok" => BuiltFrom(File.mask, File.mask_idx, v))

\* A structure returned whose mask row has an X: the column is excluded.
C12_Witness ==
    /\ Returned
    /\ ret.tag = "Ok"
    /\ \E k \in 1..Len(File.mask) :
          /\ MaskValueAt(Min(MaskRows))[k] = "X"
          /\ ~File.mask[k]
    /\ File.mask_idx = <<0>>

C16_Step ==
    (Scanning /\ Item.ok /\ HasAnnotationPrefix(Item.line)) =>
        LET line == Item.line
        IN  /\ seq' = seq
            /\ IF AnnotationShape(line)
               THEN \/ /\ ret' = Pending
                       /\ IF StartsWith(line, LIT_GR)
                          THEN /\ pp' = Insert(pp, Tokens(Drop(line, Len(LIT_GR)))[1],
                                            ValueToken(line))
                               /\ pp_cons' = pp_cons
                               /\ mask' = mask
                          ELSE IF StartsWith(line, LIT_PP_CONS)
                          THEN /\ pp_cons' = ValueToken(line)
                               /\ pp' = pp
                               /\ mask' = mask
                          ELSE /\ BuiltFrom(mask', mask_idx', ValueToken(line))
                               /\ pp' = pp
                               /\ pp_cons' = pp_cons
                    \/ /\ ret' = Duplicate(line)
                       /\ <<pp, pp_cons, mask>>' = <<pp, pp_cons, mask>>
               ELSE /\ ret' = ErrorParsing(line)
                    /\ <<pp, pp_cons, mask>>' = <<pp, pp_cons, mask>>

(***************************************************************************)
(* C16.  A line that begins with one of the three annotation prefixes is   *)
(* never stored as a sequence row.  When it is the row its prefix          *)
(* announces it goes to its own section (or is rejected as a duplicate of  *)
(* that section); otherwise from_bufreader fails with the error citing the *)
(* line, also when the line has the two-token shape of a sequence row.     *)
(***************************************************************************)
C16_PrefixedLine == [][C16_Step]_vars

\* The line #=GC RF_x, two tokens, was rejected after a sequence row was
\* stored, and the sequence map holds that row only.
C16_Witness ==
    /\ Returned
    /\ lineno > 1
    /\ buf[lineno] = L_RF_UNDERSCORE
    /\ TwoTokenShape(buf[lineno].line)
    /\ ret = ErrorParsing(buf[lineno].line)
    /\ DOMAIN seq = {G1}

C17_Step ==
    (Scanning /\ Item.ok /\ ~IsIgnorable(Item.line)
              /\ ~HasAnnotationPrefix(Item.line)) =>
        LET line == Item.line
        IN  IF TwoTokenShape(line)
            THEN \E a \in 1..Len(line) : \E b \in a + 2..Len(line) :
                    /\ SplitsAt(line, a, b)
                    /\ \/ /\ ret' = Pending
                          /\ seq' = Insert(seq, SubSeq(line, 1, a),
                                           SubSeq(line, b, Len(line)))
                       \/ /\ ret' = Duplicate(line)
                          /\ seq' = seq
            ELSE /\ ret' = ErrorParsing(line)
                 /\ seq' = seq

(***************************************************************************)
(* C17.  A line that is neither ignorable nor prefixed is stored as a      *)
(* sequence row only if it is exactly two tokens separated by blanks, with *)
(* no blank before or after; every other such line (one token, three or    *)
(* more, blanks only, a leading or a trailing blank) makes from_bufreader  *)
(* fail with the error citing that line, and stores nothing.               *)
(***************************************************************************)
C17_SequenceRowShape == [][C17_Step]_vars

\* A line of three tokens was rejected with the error citing it.
C17_Witness ==
    /\ Returned
    /\ lineno > 0
    /\ buf[lineno] = L_THREE_TOK
    /\ ret = ErrorParsing(buf[lineno].line)
    /\ seq = EmptyMap

\* The stream without its ignorable lines.
WithoutIgnorable(items) ==
    SelectSeq(items, LAMBDA it : Row[it].kind # "ignorable")

C18_Step ==
    (Scanning /\ Item.ok /\ Row[Item].kind = "ignorable") =>
        /\ <<seq, pp, pp_cons, mask, mask_idx>>' = <<seq, pp, pp_cons, mask, mask_idx>>
        /\ ret' = Pending

(***************************************************************************)
(* C18.  Ignorable lines (the empty line, the header line, the end marker) *)
(* change none of the five sections, and the outcome of from_bufreader,    *)
(* the structure or the error, is that of the stream with every ignorable  *)
(* line removed: streams that differ by ignorable lines only, any number   *)
(* of them at any positions, have the same outcome.                        *)
(***************************************************************************)
C18_IgnorableLines ==
    /\ [][C18_Step]_vars
    /\ []((pc = "returned" /\ calls = <<>>) =>
             ret = FromBufreader(WithoutIgnorable(buf)))

\* A structure returned from a stream with an ignorable line between two
\* of its rows.
C18_Witness ==
    /\ pc = "returned"
    /\ ret.tag = "Ok"
    /\ \E i \in 2..Len(buf) - 1 : IgnorableAt(i)
    /\ Len(WithoutIgnorable(buf)) < Len(buf)

\* The message of the error value r ends with the characters of text.
Embeds(r, text) ==
    /\ r.tag = "Err"
    /\ r.kind = "Exit"
    /\ text # <<>>
    /\ Len(r.msg) > Len(text)
    /\ SubSeq(r.msg, Len(r.msg) - Len(text) + 1, Len(r.msg)) = text

(***************************************************************************)
(* C19 as stated: every failure of from_bufreader carries a line of the    *)
(* stream in its message, and every failure of get_alignment the           *)
(* identifier asked for.  Refuted: the errors of the validation are fixed  *)
(* messages, here on streams none of whose lines raises an error.          *)
(***************************************************************************)
C19_Original ==
    /\ (Returned /\ CleanStream /\ ret.tag = "Err") =>
          \E i \in 1..Len(buf) : Embeds(ret, buf[i].line)
    /\ \A c \in 1..Len(calls) :
          calls[c].res.tag = "Err" => Embeds(calls[c].res, calls[c].gene_id)

(***************************************************************************)
(* C19.  An error from_bufreader raises at a malformed or duplicate line   *)
(* is the literal "Error parsing: " or "Duplicate: " followed by that line *)
(* verbatim, and an error get_alignment returns is "Missing sequence       *)
(* for: " followed by the identifier asked for.  The other errors carry    *)
(* neither: a read error is the reader's own error, and the five errors of *)
(* the validation, raised at the end of a stream none of whose lines       *)
(* raised an error, are fixed messages.                                    *)
(***************************************************************************)
C19_LineOrIdentifier ==
    /\ (Returned /\ ret.tag = "Err") =>
          IF CleanStream
          THEN /\ lineno = Len(buf)
               /\ ret \in {MissingSeq, MissingPp, DifferentLengths,
                           MissingPpCons, MissingMask}
               /\ \A i \in 1..Len(buf) : ~Embeds(ret, buf[i].line)
          ELSE /\ lineno > 0
               /\ IF buf[lineno].ok
                  THEN /\ ret \in {ErrorParsing(buf[lineno].line),
                                   Duplicate(buf[lineno].line)}
                       /\ Embeds(ret, buf[lineno].line)
                       /\ (ret.msg[1] = "Error parsing: ") =
                              (Row[buf[lineno]].kind = "malformed")
                  ELSE ret = IoError
    /\ \A c \in 1..Len(calls) :
          calls[c].res.tag = "Err" =>
              /\ calls[c].res = MissingSequenceFor(calls[c].gene_id)
              /\ Embeds(calls[c].res, calls[c].gene_id)

\* A duplicate sequence row was rejected with the message that ends with
\* the whole line.
C19_Witness ==
    /\ Returned
    /\ lineno > 1
    /\ SeqRowAt(lineno)
    /\ ret = Duplicate(buf[lineno].line)
    /\ Embeds(ret, buf[lineno].line)

(***************************************************************************)
(* Vocabulary of the properties about the ranks.                           *)
(***************************************************************************)

\* The order of the ranks, from the highest to the lowest.
RankOrder ==
    <<"Domain", "Phylum", "Class", "Order", "Family", "Genus", "Species">>

\* The position of the rank r in RankOrder.
Pos(r) == CHOOSE i \in 1..Len(RankOrder) : RankOrder[i] = r

(***************************************************************************)
(* C20.  lower returns the next rank of the order Domain, Phylum, Class,   *)
(* Order, Family, Genus, Species and None exactly for Species; higher      *)
(* returns the previous rank and None exactly for Domain; and a call of    *)
(* one on the rank the other returned gives back the rank started from:    *)
(* higher(lower(r)) = r and lower(higher(r)) = r whenever the inner call   *)
(* returns a rank.                                                         *)
(***************************************************************************)
C20_LowerHigher ==
    \A k \in 1..Len(rank_calls) :
        LET c == rank_calls[k]
        IN  /\ c.op = "lower" =>
                  /\ (c.res = None) = (c.self = "Species")
                  /\ c.res # None => c.res = Some(RankOrder[Pos(c.self) + 1])
            /\ c.op = "higher" =>
                  /\ (c.res = None) = (c.self = "Domain")
                  /\ c.res # None => c.res = Some(RankOrder[Pos(c.self) - 1])
            /\ (k > 1 /\ rank_calls[k - 1].res # None
                      /\ rank_calls[k - 1].op # c.op) =>
                  /\ c.self = rank_calls[k - 1].res.val
                  /\ c.res = Some(rank_calls[k - 1].self)

\* From Genus: lower gives Species, lower again gives None, and higher
\* gives Genus back.
C20_Witness ==
    /\ Len(rank_calls) = 3
    /\ rank_calls[1] = [op |-> "lower", self |-> "Genus", res |-> Some("Species")]
    /\ rank_calls[2] = [op |-> "lower", self |-> "Species", res |-> None]
    /\ rank_calls[3] = [op |-> "higher", self |-> "Species", res |-> Some("Genus")]

\* The ranks strictly below r, from the one next to r down to Species, and
\* the ranks strictly above r, from the one next to r up to Domain.
Below(r) == [i \in 1..Len(RankOrder) - Pos(r) |-> RankOrder[Pos(r) + i]]
Above(r) == [i \in 1..Pos(r) - 1 |-> RankOrder[Pos(r) - i]]

Semicolons == {k \in 1..Len(tax_string) : tax_string[k] = ";"}
NthSemicolon(i) ==
    CHOOSE k \in Semicolons : Cardinality({j \in Semicolons : j < k}) = i - 1

\* The number of fields, and the text of the i-th field.
FieldCount == Cardinality(Semicolons) + 1
FieldText(i) ==
    SubSeq(tax_string,
           IF i = 1 THEN 1 ELSE NthSemicolon(i - 1) + 1,
           IF i = FieldCount THEN Len(tax_string) ELSE NthSemicolon(i) - 1)

\* t is the text f without the whitespace around it.
IsTrimOf(t, f) ==
    \E a \in 0..Len(f) : \E b \in a..Len(f) :
        /\ t = SubSeq(f, a + 1, b)
        /\ \A k \in 1..a : IsSpace(f[k])
        /\ \A k \in b + 1..Len(f) : IsSpace(f[k])
        /\ t # <<>> => ~IsSpace(t[1]) /\ ~IsSpace(t[Len(t)])

(***************************************************************************)
(* C22.  Taxonomy::from_string succeeds exactly when its argument has 7    *)
(* fields separated by ';'; otherwise it returns the error whose message   *)
(* states the number of fields found.  On success get(rank), for the i-th  *)
(* rank of Domain .. Species, is the i-th field without the whitespace     *)
(* around it, the whitespace inside it kept.                               *)
(***************************************************************************)
C22_FromString ==
    tax_ret # Pending =>
        /\ (tax_ret.tag = "Ok") = (FieldCount = 7)
        /\ FieldCount # 7 =>
              /\ tax_ret.tag = "Err"
              /\ tax_ret.kind = "Exit"
              /\ tax_ret.msg = <<"Taxonomy string has ">> \o Decimal(FieldCount)
                                  \o <<" fields, expected 7">>
        /\ \A g \in 1..Len(tax_gets) :
              IsTrimOf(tax_gets[g].res[1], FieldText(Pos(tax_gets[g].rank)))

\* The species of an argument whose seventh field is " a b<TAB>": "a b".
C22_Witness ==
    /\ tax_ret.tag = "Ok"
    /\ FieldText(7) = <<" ", "a", " ", "b", "\t">>
    /\ FieldText(1) = <<"d">>
    /\ Len(tax_gets) = 1
    /\ tax_gets[1] = [rank |-> "Species", res |-> Taxon(<<"a", " ", "b">>)]

\* The stream has what the first four checks of the validation ask for.
RowsAndConsensus ==
    /\ SeqRows # {}
    /\ Cardinality(SeqRows) = Cardinality(PpRows)
    /\ ConsRows # {}

(***************************************************************************)
(* C23.  A stream whose mask row retains no column (no x in its value) is  *)
(* rejected at the end of the stream with the error "Missing mask", the    *)
(* error of a stream with no mask row at all; and no structure returned    *)
(* has an empty mask_idx.                                                  *)
(***************************************************************************)
C23_EmptyMaskIdx ==
    /\ (Returned /\ CleanStream /\ RowsAndConsensus /\ NoRetainedColumn) =>
          /\ ret = MissingMask
          /\ lineno = Len(buf)
    /\ (Returned /\ ret.tag = "Ok") => File.mask_idx # <<>>

\* The mask row "..." was taken, the loop went to the end of the stream and
\* the validation returned "Missing mask".
C23_Witness ==
    /\ Returned
    /\ MaskRows # {}
    /\ mask # <<>>
    /\ mask_idx = <<>>
    /\ lineno = Len(buf)
    /\ ret = MissingMask

\* Some aligned string of the stream ends before a retained column of the
\* mask row, or some posterior string has another length than the mask.
LengthsDisagree ==
    \E j \in MaskRows :
        \/ \E i \in SeqRows : \E k \in 1..Len(MaskValueAt(j)) :
              MaskValueAt(j)[k] = "x" /\ k > Len(SeqStringAt(i))
        \/ \E i \in PpRows : Len(Row[buf[i]].value) # Len(MaskValueAt(j))

(***************************************************************************)
(* C25.  from_bufreader compares no aligned string and no posterior string *)
(* with the mask: a stream that passes the five checks and has an aligned  *)
(* string shorter than the highest retained index plus one (or a posterior *)
(* string of another length than the mask) parses successfully, the        *)
(* structure holds the strings as they are, and so it can hold an          *)
(* identifier whose projection reads past the end of its aligned string.   *)
(***************************************************************************)
C25_NoLengthCheck ==
    ( /\ Returned
      /\ CleanStream
      /\ RowsAndConsensus
      /\ ~NoRetainedColumn
      /\ LengthsDisagree ) =>
        /\ ret.tag = "Ok"
        /\ \A i \in SeqRows : File.seq[SeqIdAt(i)] = SeqStringAt(i)
        /\ \A i \in PpRows : File.pp[PpIdAt(i)] = Row[buf[i]].value
        /\ \A i \in SeqRows :
              (\E k \in 1..Len(File.mask) : File.mask[k] /\ k > Len(SeqStringAt(i)))
                  => ReadsPastEnd(SeqIdAt(i))

\* A structure whose mask is longer than the aligned string and the
\* posterior string of G1, with a retained index past the end of both.
C25_Witness ==
    /\ Returned
    /\ ret.tag = "Ok"
    /\ G1 \in DOMAIN File.seq
    /\ ReadsPastEnd(G1)
    /\ Len(File.pp[G1]) < Len(File.mask)
    /\ calls = <<>>

C24_Step ==
    (Scanning /\ Item.ok /\ Row[Item].kind \in {"seq", "pp"}) =>
        LET row == Row[Item]
            earlier == {i \in 1..lineno : /\ Row[buf[i]].kind = row.kind
                                          /\ Row[buf[i]].id = row.id}
        IN  IF earlier # {}
            THEN /\ ret' = Duplicate(Item.line)
                 /\ seq' = seq
                 /\ pp' = pp
            ELSE /\ ret' = Pending
                 /\ IF row.kind = "seq"
                    THEN seq' = Insert(seq, row.id, row.value) /\ pp' = pp
                    ELSE pp' = Insert(pp, row.id, row.value) /\ seq' = seq

(***************************************************************************)
(* C24.  Duplicates are detected per section: a sequence row is rejected   *)
(* as a duplicate exactly when an earlier sequence row carries its         *)
(* identifier, and a posterior row exactly when an earlier posterior row   *)
(* does; the identifier being present in the other section, before or      *)
(* after, makes no duplicate, and the row is stored in its own map.        *)
(***************************************************************************)
C24_PerSection == [][C24_Step]_vars

\* A structure holding G1 in both maps, read from a stream where the
\* posterior row of G1 came before its sequence row.
C24_Witness ==
    /\ Returned
    /\ ret.tag = "Ok"
    /\ G1 \in DOMAIN File.seq \cap DOMAIN File.pp
    /\ \E i \in PpRows : \E j \in SeqRows : i < j /\ PpIdAt(i) = SeqIdAt(j)

(***************************************************************************)
(* C26.  get_alignment changes nothing in the parsed structure: after any  *)
(* sequence of calls, whether they return a string, return an error or     *)
(* panic, the sequence map, the posterior map, pp_cons, mask and mask_idx  *)
(* are what from_bufreader returned for the stream.                        *)
(***************************************************************************)
C26_StructureUnchanged ==
    calls # <<>> =>
        /\ ret.tag = "Ok"
        /\ ret = FromBufreader(buf)
        /\ File = [seq |-> seq, pp |-> pp, pp_cons |-> pp_cons, mask |-> mask,
                   mask_idx |-> mask_idx]

\* Three calls were made, one returned a string and one an error.
C26_Witness ==
    /\ Len(calls) = MaxCalls
    /\ \E c \in 1..Len(calls) : calls[c].res.tag = "Ok"
    /\ \E c \in 1..Len(calls) : calls[c].res.tag = "Err"
    /\ ret = FromBufreader(buf)

\* The stream with its items i and j exchanged.
Swap(items, i, j) ==
    [k \in 1..Len(items) |->
        IF k = i THEN items[j] ELSE IF k = j THEN items[i] ELSE items[k]]

(***************************************************************************)
(* C27.  The structure a successful from_bufreader returns does not depend *)
(* on the order of the lines: exchanging any two lines of a successfully   *)
(* parsed stream gives a stream that parses successfully to the same       *)
(* sequence map, posterior map, pp_cons, mask and mask_idx.  The streams   *)
(* read are closed under exchanges and every permutation is a product of   *)
(* exchanges, so this holds for every permutation of the lines.            *)
(***************************************************************************)
C27_OrderIndependent ==
    (pc = "returned" /\ calls = <<>> /\ ret.tag = "Ok") =>
        \A i \in 1..Len(buf) : \A j \in i + 1..Len(buf) :
            FromBufreader(Swap(buf, i, j)) = ret

\* A structure read from a stream that begins with the mask row and has
\* the posterior row of an identifier before its sequence row.
C27_Witness ==
    /\ pc = "returned"
    /\ calls = <<>>
    /\ ret.tag = "Ok"
    /\ MaskRowAt(1)
    /\ \E i \in PpRows : \E j \in SeqRows : i < j /\ PpIdAt(i) = SeqIdAt(j)
    /\ FromBufreader(Swap(buf, 1, Len(buf))) = ret

\* Item i of the stream is erroneous: it cannot be read, it has none of the
\* five shapes, or it repeats an identifier of its section, or the single
\* row of its section, seen in an earlier item.
ErroneousAt(i) ==
    LET row == Row[buf[i]]
    IN  \/ row.kind \in {"unreadable", "malformed"}
        \/ /\ row.kind \in {"seq", "pp"}
           /\ \E j \in 1..i - 1 : Row[buf[j]].kind = row.kind /\ Row[buf[j]].id = row.id
        \/ /\ row.kind \in {"cons", "mask"}
           /\ \E j \in 1..i - 1 : Row[buf[j]].kind = row.kind

Erroneous == {i \in 1..Len(buf) : ErroneousAt(i)}

\* The error an erroneous item raises.
ErrorAt(i) ==
    IF Row[buf[i]].kind = "unreadable" THEN IoError
    ELSE IF Row[buf[i]].kind = "malformed" THEN ErrorParsing(buf[i].line)
    ELSE Duplicate(buf[i].line)

(***************************************************************************)
(* C28.  When the stream has erroneous items, from_bufreader returns the   *)
(* error of the earliest of them in stream order and takes no later item:  *)
(* the sections hold the rows before it and nothing else.  An error of the *)
(* validation at the end of the stream is returned only when no item of    *)
(* the stream is erroneous.                                                *)
(***************************************************************************)
C28_EarliestError ==
    Returned =>
        IF Erroneous # {}
        THEN LET e == Min(Erroneous)
             IN  /\ lineno = e
                 /\ ret = ErrorAt(e)
                 /\ DOMAIN seq = {SeqIdAt(i) : i \in {j \in SeqRows : j < e}}
                 /\ DOMAIN pp = {PpIdAt(i) : i \in {j \in PpRows : j < e}}
                 /\ (pp_cons # <<>>) = (\E j \in ConsRows : j < e)
                 /\ (mask # <<>>) = (\E j \in MaskRows : j < e)
        ELSE /\ lineno = Len(buf)
             /\ ret \in {MissingSeq, MissingPp, DifferentLengths, MissingPpCons,
                         MissingMask}
                \/ ret.tag = "Ok"

\* A stream with a row, then a malformed line and, later, a row that
\* repeats the first: the error is that of the malformed line.
C28_Witness ==
    /\ Returned
    /\ Cardinality(Erroneous) >= 2
    /\ \A i \in Erroneous : buf[i].ok
    /\ \E i \in Erroneous : \E j \in Erroneous :
          /\ i < j
          /\ Row[buf[i]].kind = "malformed"
          /\ Row[buf[j]].kind \in {"seq", "pp", "cons", "mask"}
    /\ Min(Erroneous) > 1
    /\ ret = ErrorParsing(buf[Min(Erroneous)].line)
    /\ lineno < Len(buf)

\* Items i and k are rows of one section that cannot both be stored: the
\* same identifier in the sequence or the posterior section, or two
\* consensus rows, or two mask rows.
Conflict(i, k) ==
    /\ Row[buf[i]].kind = Row[buf[k]].kind
    /\ \/ Row[buf[i]].kind \in {"cons", "mask"}
       \/ Row[buf[i]].kind \in {"seq", "pp"} /\ Row[buf[i]].id = Row[buf[k]].id

\* Item i is a line that starts with the end marker "//".
EndMarkerAt(i) == buf[i].ok /\ StartsWith(buf[i].line, LIT_SLASHES)

\* The triples i < e < k of a row, an end marker "//" and a row that
\* conflicts with the first.
AcrossEndMarker ==
    {t \in (1..Len(buf)) \X (1..Len(buf)) \X (1..Len(buf)) :
        /\ t[1] < t[2]
        /\ t[2] < t[3]
        /\ EndMarkerAt(t[2])
        /\ Conflict(t[1], t[3])}

(***************************************************************************)
(* C29.  The end marker "//" neither ends the scan nor resets the          *)
(* sections.  A structure is returned only after the last item, and it     *)
(* holds the rows before and after every "//".  A row after "//" that      *)
(* repeats an identifier of its section seen before the "//", or is the    *)
(* second consensus or mask row, makes from_bufreader fail, with           *)
(* "Duplicate: <line>" when the loop reaches it.                           *)
(***************************************************************************)
C29_EndMarker ==
    Returned =>
        /\ ret.tag = "Ok" =>
              /\ lineno = Len(buf)
              /\ DOMAIN File.seq = {SeqIdAt(i) : i \in SeqRows}
              /\ DOMAIN File.pp = {PpIdAt(i) : i \in PpRows}
              /\ \A i \in ConsRows : File.pp_cons = ConsValueAt(i)
              /\ \A i \in MaskRows : Len(File.mask) = Len(MaskValueAt(i))
        /\ \A t \in AcrossEndMarker :
              /\ ret.tag = "Err"
              /\ lineno <= t[3]
              /\ lineno = t[3] => ret = Duplicate(buf[t[3]].line)
        /\ (0 < lineno /\ lineno < Len(buf)) => ~EndMarkerAt(lineno)

\* A consensus row after "//" was rejected as the duplicate of the one
\* before "//", the rows read before the "//" still being stored.
C29_Witness ==
    /\ Returned
    /\ \E t \in AcrossEndMarker :
          /\ lineno = t[3]
          /\ ConsRowAt(t[3])
          /\ ret = Duplicate(buf[t[3]].line)
    /\ DOMAIN seq # {}
    /\ DOMAIN pp # {}

\* The line begins with the header marker or with the end marker.
HasIgnorablePrefix(line) ==
    \/ StartsWith(line, LIT_STOCKHOLM)
    \/ StartsWith(line, LIT_SLASHES)

\* The line begins with #, and with none of the five prefixes the loop
\* tests for.
OtherHashLine(line) ==
    /\ line # <<>>
    /\ line[1] = "#"
    /\ ~HasIgnorablePrefix(line)
    /\ ~HasAnnotationPrefix(line)

C30_Step ==
    (Scanning /\ Item.ok) =>
        LET line == Item.line
        IN  /\ HasIgnorablePrefix(line) =>
                  /\ <<seq, pp, pp_cons, mask, mask_idx>>' =
                         <<seq, pp, pp_cons, mask, mask_idx>>
                  /\ ret' = Pending
                  /\ pc' = "scan"
            /\ OtherHashLine(line) =>
                  /\ <<pp, pp_cons, mask, mask_idx>>' = <<pp, pp_cons, mask, mask_idx>>
                  /\ IF TwoTokenShape(line)
                     THEN LET id == Tokens(line)[1]
                          IN  IF id \in DOMAIN seq
                              THEN ret' = Duplicate(line) /\ seq' = seq
                              ELSE /\ ret' = Pending
                                   /\ DOMAIN seq' = DOMAIN seq \cup {id}
                                   /\ seq'[id] = ValueToken(line)
                                   /\ \A k \in DOMAIN seq : seq'[k] = seq[k]
                     ELSE ret' = ErrorParsing(line) /\ seq' = seq

(***************************************************************************)
(* C30.  A line is ignorable by its prefix alone: every line that begins   *)
(* with "//" or with "# STOCKHOLM" is skipped whatever follows the prefix  *)
(* (the line //G1 ABC, of the two-token shape, adds no sequence row and    *)
(* raises no error), while every other line that begins with # and with    *)
(* none of the three annotation prefixes goes through the two-token rule:  *)
(* stored as a sequence row under its first token, rejected as a duplicate *)
(* of that identifier, or rejected as malformed.                           *)
(***************************************************************************)
C30_IgnorableByPrefix == [][C30_Step]_vars

\* The line //G1 ABC was skipped and then a # line of two tokens was
\* stored as the only sequence row, under its first token.
C30_Witness ==
    /\ pc = "scan"
    /\ \E i \in 1..lineno : \E j \in i + 1..lineno :
          /\ buf[i].ok
          /\ StartsWith(buf[i].line, LIT_SLASHES)
          /\ TwoTokenShape(buf[i].line)
          /\ buf[j].ok
          /\ OtherHashLine(buf[j].line)
          /\ TwoTokenShape(buf[j].line)
          /\ DOMAIN seq = {Tokens(buf[j].line)[1]}
          /\ seq[Tokens(buf[j].line)[1]] = ValueToken(buf[j].line)

====
